---- MODULE Spec2Model ----
(***************************************************************************)
(* Model of the two order-analysis scripts of deanturpin/lft:              *)
(*   analyze_win_rates.py  classify fills, sort by fill time, greedily     *)
(*                         match every sell to the first earlier buy of    *)
(*                         the same symbol, fold into per-strategy stats   *)
(*   analyze_trades.py     print one row per order, total the notionals,   *)
(*                         print a per-symbol breakdown                    *)
(*                                                                         *)
(* An order record is a function from the JSON keys it carries to their    *)
(* values: a key that is missing from the record is missing from DOMAIN,   *)
(* a JSON null is the value Null.  Money is in whole units and the         *)
(* arithmetic is exact; fill times are integers ordered as the ISO-8601    *)
(* strings of one fixed format are ordered by Python's string comparison.  *)
(* A Python str that the code takes apart (client_order_id) is a sequence  *)
(* of chunks, the delimiter "_" being a chunk of its own.                  *)
(*                                                                         *)
(* The fields id (of a fill) and the variable matched are history          *)
(* variables: they name the position of a fill in the input batch so that  *)
(* properties can speak about "the same fill"; no code reads them.         *)
(***************************************************************************)
EXTENDS Integers, Sequences, FiniteSets, TLC

VARIABLES
    orders,          \* the input batch: response.json() / json.load(sys.stdin)
    pc,              \* position of the running script
    error,           \* the exception that ended the run, "none" while there is none
    i,               \* index in orders of the order the for loop handles next
    buys,            \* analyze_win_rates.py: buys (the unmatched pool once matching runs)
    sells,           \* analyze_win_rates.py: sells
    strategy_stats,  \* analyze_win_rates.py: strategy_stats (a defaultdict)
    sell_idx,        \* analyze_win_rates.py: position of `for sell in sells`
    matched,         \* history: << [buy |-> id, sell |-> id, pos |-> sell position] >>
    report,          \* analyze_win_rates.py: the printed per-strategy tables
    output,          \* analyze_trades.py: the lines printed so far
    total_buy,       \* analyze_trades.py: total_buy
    total_sell,      \* analyze_trades.py: total_sell
    pairs,           \* analyze_trades.py: pairs
    total_pnl,       \* analyze_trades.py: total_pnl
    todo,            \* analyze_trades.py: symbols the breakdown loop has still to print
    shuffled,        \* a permutation of orders (the batch as a second run receives it)
    result1,         \* outcome of the run of analyze_win_rates.py on orders
    result2          \* outcome of the run of analyze_win_rates.py on shuffled

vars == << orders, pc, error, i, buys, sells, strategy_stats, sell_idx, matched,
           report, output, total_buy, total_sell, pairs, total_pnl, todo,
           shuffled, result1, result2 >>

winRateVars == << buys, sells, strategy_stats, sell_idx, matched, report >>
tradesVars == << output, total_buy, total_sell, pairs, total_pnl, todo >>
shuffleVars == << shuffled, result1, result2 >>

----------------------------------------------------------------------------
(* Bounds and value domains *)

MaxOrders == 3
MaxStatsOrders == 4

Null == -1
NA == 0

Symbols == {"AAPL", "NVDA"}
Sides == {"buy", "sell"}
Times == {1, 2, 3}

UNKNOWN == << "UNKNOWN" >>
DipId == << "lft", "_", "dip", "_", "7" >>
MomId == << "lft", "_", "mom", "_", "8" >>
PlainId == << "manual" >>

----------------------------------------------------------------------------
(* Python helpers *)

Has(order, key) == key \in DOMAIN order

Get(order, key, default) == IF key \in DOMAIN order THEN order[key] ELSE default

RECURSIVE Split(_, _)
Split(s, sep) ==
    IF \A k \in 1..Len(s) : s[k] # sep
    THEN << s >>
    ELSE LET p == CHOOSE k \in 1..Len(s) :
                      s[k] = sep /\ \A m \in 1..(k - 1) : s[m] # sep
         IN  << SubSeq(s, 1, p - 1) >> \o Split(SubSeq(s, p + 1, Len(s)), sep)

RECURSIVE SumSeq(_)
SumSeq(s) == IF s = << >> THEN 0 ELSE s[1] + SumSeq(Tail(s))

RemoveAt(s, k) == SubSeq(s, 1, k - 1) \o SubSeq(s, k + 1, Len(s))

LastN(s, n) == IF Len(s) <= n THEN s ELSE SubSeq(s, Len(s) - n + 1, Len(s))

DateOf(t) == t \div 2

----------------------------------------------------------------------------
(* analyze_win_rates.py: classification *)

Filled(order) == Get(order, "filled_at", Null) # Null

Strategy(order) ==
    LET client_id == Get(order, "client_order_id", << >>)
    IN  IF client_id # << >> /\ \E k \in 1..Len(client_id) : client_id[k] = "_"
        THEN Split(client_id, "_")[2]
        ELSE UNKNOWN

FillNotional(order) ==
    Get(order, "filled_avg_price", 0) * Get(order, "filled_qty", 0)

BuyFill(order, n) ==
    [ symbol   |-> order["symbol"],
      strategy |-> Strategy(order),
      price    |-> Get(order, "filled_avg_price", 0),
      qty      |-> Get(order, "filled_qty", 0),
      time     |-> order["filled_at"],
      notional |-> FillNotional(order),
      id       |-> n ]

SellFill(order, n) ==
    [ symbol   |-> order["symbol"],
      price    |-> Get(order, "filled_avg_price", 0),
      qty      |-> Get(order, "filled_qty", 0),
      time     |-> order["filled_at"],
      notional |-> FillNotional(order),
      id       |-> n ]

\* The exception lines 34-60 raise on one order, "none" when they raise none.
ClassifyError(order) ==
    IF ~Filled(order) THEN "none"
    ELSE IF ~Has(order, "side") THEN "KeyError"
    ELSE IF order["side"] \notin {"buy", "sell"} THEN "none"
    ELSE IF ~Has(order, "symbol") THEN "KeyError"
    ELSE IF Get(order, "filled_avg_price", 0) = Null
            \/ Get(order, "filled_qty", 0) = Null THEN "TypeError"
    ELSE "none"

\* One iteration of `for order in orders` on st = [buys, sells, error].
ClassifyStep(st, order, n) ==
    IF ClassifyError(order) # "none"
    THEN [st EXCEPT !.error = ClassifyError(order)]
    ELSE IF ~Filled(order) THEN st
    ELSE IF order["side"] = "buy"
         THEN [st EXCEPT !.buys = Append(@, BuyFill(order, n))]
    ELSE IF order["side"] = "sell"
         THEN [st EXCEPT !.sells = Append(@, SellFill(order, n))]
    ELSE st

----------------------------------------------------------------------------
(* analyze_win_rates.py: sort and match *)

\* SortByTime with the sort left out.
Unsorted(s) == s

\* list.sort(key=lambda x: x['time']) is stable.
RECURSIVE SortByTime(_)
SortByTime(s) ==
    IF s = << >> THEN << >>
    ELSE LET f    == s[Len(s)]
             rest == SortByTime(SubSeq(s, 1, Len(s) - 1))
             keep == Cardinality({k \in 1..Len(rest) : rest[k].time <= f.time})
         IN  SubSeq(rest, 1, keep) \o << f >> \o SubSeq(rest, keep + 1, Len(rest))

Eligible(buy, sell) == buy.symbol = sell.symbol /\ buy.time < sell.time

\* FirstMatch with the scan run from the back of the pool (last eligible buy).
LastMatch(bs, sell) ==
    IF \E k \in 1..Len(bs) : Eligible(bs[k], sell)
    THEN CHOOSE k \in 1..Len(bs) :
             Eligible(bs[k], sell) /\ \A m \in (k + 1)..Len(bs) : ~Eligible(bs[m], sell)
    ELSE 0

\* Index of the buy the inner loop stops at, 0 when it runs to the end.
FirstMatch(bs, sell) ==
    IF \E k \in 1..Len(bs) : Eligible(bs[k], sell)
    THEN CHOOSE k \in 1..Len(bs) :
             Eligible(bs[k], sell) /\ \A m \in 1..(k - 1) : ~Eligible(bs[m], sell)
    ELSE 0

Pnl(buy, sell) == sell.notional - buy.notional

\* (pnl / buy['notional']) * 100 as an exact fraction; the division raises on 0.
PnlPct(buy, sell) == [num |-> Pnl(buy, sell) * 100, den |-> buy.notional]

Trade(buy, sell) ==
    [ symbol     |-> buy.symbol,
      buy_price  |-> buy.price,
      sell_price |-> sell.price,
      pnl        |-> Pnl(buy, sell),
      pnl_pct    |-> PnlPct(buy, sell),
      date       |-> DateOf(buy.time) ]

EmptyStats == [wins |-> 0, losses |-> 0, total_pnl |-> 0, trades |-> << >>]

StatsOf(stats, strategy) ==
    IF strategy \in DOMAIN stats THEN stats[strategy] ELSE EmptyStats

\* IsWin with the boundary moved: a break-even trade counted as a win.
IsWinOrEven(pnl) == pnl >= 0

\* Line 88.
IsWin(pnl) == pnl > 0

\* Counted with total_pnl assigned instead of accumulated.
CountedAssign(old, buy, sell) ==
    [ wins      |-> old.wins + (IF IsWin(Pnl(buy, sell)) THEN 1 ELSE 0),
      losses    |-> old.losses + (IF IsWin(Pnl(buy, sell)) THEN 0 ELSE 1),
      total_pnl |-> Pnl(buy, sell),
      trades    |-> Append(old.trades, Trade(buy, sell)) ]

\* Lines 79-93: the strategy's entry after one more trade.
Counted(old, buy, sell) ==
    [ wins      |-> old.wins + (IF IsWin(Pnl(buy, sell)) THEN 1 ELSE 0),
      losses    |-> old.losses + (IF IsWin(Pnl(buy, sell)) THEN 0 ELSE 1),
      total_pnl |-> old.total_pnl + Pnl(buy, sell),
      trades    |-> Append(old.trades, Trade(buy, sell)) ]

RecordTrade(stats, buy, sell) ==
    [ s \in DOMAIN stats \cup {buy.strategy} |->
        IF s = buy.strategy
        THEN Counted(StatsOf(stats, buy.strategy), buy, sell)
        ELSE stats[s] ]

\* Pool without the buys.pop(i): the matched buy stays in the pool.
PoolKept(bs, k) == bs

\* Lines 95-96: the pool after the buy at index k is matched.
Pool(bs, k) == RemoveAt(bs, k)

\* One iteration of `for sell in sells` on st = [buys, stats, matched, error].
MatchStep(st, sell, pos) ==
    LET k == FirstMatch(st.buys, sell)
    IN  IF k = 0 THEN st
        ELSE IF st.buys[k].notional = 0
             THEN [st EXCEPT !.error = "ZeroDivisionError"]
        ELSE [ buys    |-> Pool(st.buys, k),
               stats   |-> RecordTrade(st.stats, st.buys[k], sell),
               matched |-> Append(st.matched,
                                  [buy |-> st.buys[k].id, sell |-> sell.id, pos |-> pos]),
               error   |-> "none" ]

RecentN == 10

SummaryRow(stats) ==
    LET total == stats.wins + stats.losses
    IN  [ wins      |-> stats.wins,
          losses    |-> stats.losses,
          total     |-> total,
          win_rate  |-> IF total > 0 THEN [num |-> stats.wins * 100, den |-> total]
                                     ELSE [num |-> 0, den |-> 1],
          total_pnl |-> stats.total_pnl,
          recent    |-> [ k \in 1..Len(LastN(stats.trades, RecentN)) |->
                            [ trade |-> LastN(stats.trades, RecentN)[k],
                              win   |-> LastN(stats.trades, RecentN)[k].pnl > 0 ] ] ]

Report(stats) == [s \in DOMAIN stats |-> SummaryRow(stats[s])]

----------------------------------------------------------------------------
(* analyze_win_rates.py as a state machine *)

ClassifyOrder ==
    /\ pc = "classify"
    /\ i <= Len(orders)
    /\ LET st == ClassifyStep([buys |-> buys, sells |-> sells, error |-> "none"],
                              orders[i], i)
       IN  /\ buys' = st.buys
           /\ sells' = st.sells
           /\ error' = st.error
           /\ pc' = IF st.error = "none" THEN "classify" ELSE "crashed"
           /\ i' = IF st.error = "none" THEN i + 1 ELSE i
    /\ UNCHANGED << orders, strategy_stats, sell_idx, matched, report >>
    /\ UNCHANGED tradesVars
    /\ UNCHANGED shuffleVars

SortFills ==
    /\ pc = "classify"
    /\ i > Len(orders)
    /\ buys' = SortByTime(buys)
    /\ sells' = SortByTime(sells)
    /\ sell_idx' = 1
    /\ pc' = "match"
    /\ UNCHANGED << orders, error, i, strategy_stats, matched, report >>
    /\ UNCHANGED tradesVars
    /\ UNCHANGED shuffleVars

MatchSell ==
    /\ pc = "match"
    /\ sell_idx <= Len(sells)
    /\ LET st == MatchStep([buys |-> buys, stats |-> strategy_stats,
                            matched |-> matched, error |-> "none"],
                           sells[sell_idx], sell_idx)
       IN  /\ buys' = st.buys
           /\ strategy_stats' = st.stats
           /\ matched' = st.matched
           /\ error' = st.error
           /\ pc' = IF st.error = "none" THEN "match" ELSE "crashed"
           /\ sell_idx' = IF st.error = "none" THEN sell_idx + 1 ELSE sell_idx
    /\ UNCHANGED << orders, i, sells, report >>
    /\ UNCHANGED tradesVars
    /\ UNCHANGED shuffleVars

PrintResults ==
    /\ pc = "match"
    /\ sell_idx > Len(sells)
    /\ report' = Report(strategy_stats)
    /\ pc' = "done"
    /\ UNCHANGED << orders, error, i, buys, sells, strategy_stats, sell_idx, matched >>
    /\ UNCHANGED tradesVars
    /\ UNCHANGED shuffleVars

NextWinRates == ClassifyOrder \/ SortFills \/ MatchSell \/ PrintResults

----------------------------------------------------------------------------
(* Input batches *)

BatchesUpTo(S, max) == UNION { [1..n -> S] : n \in 0..max }

Batches(S) == BatchesUpTo(S, MaxOrders)

Opt(key, S) == { << >> } \cup { key :> v : v \in S }

\* Fills of two symbols at three fill times; a buy may lack its fill price.
MatchOrders ==
    { [symbol |-> s, side |-> "buy", filled_qty |-> 1, filled_at |-> t] @@ p :
        s \in Symbols, t \in Times, p \in Opt("filled_avg_price", {10}) }
    \cup
    { [symbol |-> s, side |-> "sell", filled_avg_price |-> 12, filled_qty |-> 1,
       filled_at |-> t] : s \in Symbols, t \in Times }
    \cup
    { [symbol |-> "AAPL", side |-> "buy", filled_at |-> Null],
      [symbol |-> "AAPL", filled_at |-> 1],
      [side |-> "buy", filled_at |-> 1],
      [symbol |-> "AAPL", side |-> "sell", filled_avg_price |-> Null,
       filled_qty |-> 1, filled_at |-> 2] }

InitCommon ==
    /\ error = "none"
    /\ i = 1
    /\ buys = << >>
    /\ sells = << >>
    /\ strategy_stats = << >>
    /\ sell_idx = 0
    /\ matched = << >>
    /\ report = << >>
    /\ output = << >>
    /\ total_buy = 0
    /\ total_sell = 0
    /\ pairs = << >>
    /\ total_pnl = 0
    /\ todo = << >>
    /\ result1 = << >>
    /\ result2 = << >>

InitWinRates ==
    /\ orders \in Batches(MatchOrders)
    /\ shuffled = << >>
    /\ pc = "classify"
    /\ InitCommon

SpecWinRates == InitWinRates /\ [][NextWinRates]_vars

----------------------------------------------------------------------------
(* analyze_win_rates.py as a function of its input batch *)

RECURSIVE ClassifyFrom(_, _, _)
ClassifyFrom(batch, n, st) ==
    IF n > Len(batch) \/ st.error # "none" THEN st
    ELSE ClassifyFrom(batch, n + 1, ClassifyStep(st, batch[n], n))

RECURSIVE MatchFrom(_, _, _)
MatchFrom(ss, pos, st) ==
    IF pos > Len(ss) \/ st.error # "none" THEN st
    ELSE MatchFrom(ss, pos + 1, MatchStep(st, ss[pos], pos))

RunWinRates(batch) ==
    LET c == ClassifyFrom(batch, 1, [buys |-> << >>, sells |-> << >>, error |-> "none"])
    IN  IF c.error # "none"
        THEN [buys |-> c.buys, stats |-> << >>, matched |-> << >>, error |-> c.error]
        ELSE MatchFrom(SortByTime(c.sells), 1,
                       [buys |-> SortByTime(c.buys), stats |-> << >>,
                        matched |-> << >>, error |-> "none"])

RunOriginal ==
    /\ pc = "ready"
    /\ result1' = RunWinRates(orders)
    /\ pc' = "half"
    /\ UNCHANGED << orders, error, i, shuffled, result2 >>
    /\ UNCHANGED winRateVars
    /\ UNCHANGED tradesVars

RunShuffled ==
    /\ pc = "half"
    /\ result2' = RunWinRates(shuffled)
    /\ pc' = "both"
    /\ UNCHANGED << orders, error, i, shuffled, result1 >>
    /\ UNCHANGED winRateVars
    /\ UNCHANGED tradesVars

NextShuffle == RunOriginal \/ RunShuffled

----------------------------------------------------------------------------
(* analyze_trades.py *)

Truthy(v) == v # Null /\ v # 0

\* Line 21.
Notional(order) ==
    IF Truthy(Get(order, "filled_avg_price", Null))
    THEN Get(order, "filled_avg_price", 0) * Get(order, "filled_qty", 0)
    ELSE 0

\* Lines 22-26: the fill time as printed (whole seconds), NA for 'N/A'.
DisplayTime(order) ==
    LET filled_at == Get(order, "filled_at", Get(order, "created_at", NA))
    IN  IF Truthy(filled_at) THEN filled_at ELSE NA

\* The exception lines 17-28 raise on one order, "none" when they raise none.
RowError(order) ==
    IF ~Has(order, "symbol") THEN "KeyError"
    ELSE IF ~Has(order, "side") THEN "KeyError"
    ELSE IF Truthy(Get(order, "filled_avg_price", Null))
            /\ Get(order, "filled_qty", 0) = Null THEN "TypeError"
    ELSE IF Get(order, "filled_qty", Get(order, "qty", 0)) = Null THEN "TypeError"
    ELSE IF Get(order, "filled_avg_price", 0) = Null THEN "TypeError"
    ELSE "none"

Row(order) ==
    [ kind     |-> "row",
      symbol   |-> order["symbol"],
      side     |-> order["side"],
      qty      |-> Get(order, "filled_qty", Get(order, "qty", 0)),
      price    |-> Get(order, "filled_avg_price", 0),
      notional |-> Notional(order),
      time     |-> DisplayTime(order) ]

EmptyPair == [buys |-> << >>, sells |-> << >>]

PairOf(p, symbol) == IF symbol \in DOMAIN p THEN p[symbol] ELSE EmptyPair

\* Lines 30-39 on pairs.
AddToPairs(p, order) ==
    IF order["side"] = "buy"
    THEN [ s \in DOMAIN p \cup {order["symbol"]} |->
             IF s = order["symbol"]
             THEN [PairOf(p, s) EXCEPT !.buys = Append(@, Notional(order))]
             ELSE p[s] ]
    ELSE IF order["side"] = "sell"
    THEN [ s \in DOMAIN p \cup {order["symbol"]} |->
             IF s = order["symbol"]
             THEN [PairOf(p, s) EXCEPT !.sells = Append(@, Notional(order))]
             ELSE p[s] ]
    ELSE p

\* AddToTotal without the test of the side.
AddToTotalAnySide(total, order, side) == total + Notional(order)

\* Lines 30-31 and 35-36: total_buy / total_sell after one order.
AddToTotal(total, order, side) ==
    IF order["side"] = side THEN total + Notional(order) ELSE total

\* sorted(pairs.items()): the symbols in string order.
SortedSymbols(S) == SelectSeq(<< "AAPL", "NVDA" >>, LAMBDA s : s \in S)

Status(trades) ==
    IF Len(trades.buys) > 0 /\ Len(trades.sells) > 0 THEN "pnl"
    ELSE IF Len(trades.buys) > 0 THEN "open"
    ELSE IF Len(trades.sells) > 0 THEN "close_only"
    ELSE "none"

SymbolPnl(trades) == SumSeq(trades.sells) - SumSeq(trades.buys)

\* Lines 57-62: the line of one symbol.
SymbolLine(symbol, trades) ==
    [ kind   |-> "symbol",
      symbol |-> symbol,
      status |-> Status(trades),
      bought |-> IF Status(trades) \in {"pnl", "open"} THEN SumSeq(trades.buys) ELSE 0,
      sold   |-> IF Status(trades) \in {"pnl", "close_only"}
                 THEN SumSeq(trades.sells) ELSE 0,
      pnl    |-> IF Status(trades) = "pnl" THEN SymbolPnl(trades) ELSE 0 ]

\* Lines 54-55: what one symbol adds to total_pnl.
Realized(trades) == SymbolPnl(trades)

PrintHeader ==
    /\ pc = "start"
    /\ output' = << [kind |-> "header", count |-> Len(orders)] >>
    /\ pc' = "loop"
    /\ UNCHANGED << orders, error, i, total_buy, total_sell, pairs, total_pnl, todo >>
    /\ UNCHANGED winRateVars
    /\ UNCHANGED shuffleVars

ProcessOrder ==
    /\ pc = "loop"
    /\ i <= Len(orders)
    /\ IF RowError(orders[i]) # "none"
       THEN /\ error' = RowError(orders[i])
            /\ pc' = "crashed"
            /\ UNCHANGED << i, output, total_buy, total_sell, pairs >>
       ELSE /\ output' = Append(output, Row(orders[i]))
            /\ total_buy' = AddToTotal(total_buy, orders[i], "buy")
            /\ total_sell' = AddToTotal(total_sell, orders[i], "sell")
            /\ pairs' = AddToPairs(pairs, orders[i])
            /\ i' = i + 1
            /\ UNCHANGED << error, pc >>
    /\ UNCHANGED << orders, total_pnl, todo >>
    /\ UNCHANGED winRateVars
    /\ UNCHANGED shuffleVars

PrintTotals ==
    /\ pc = "loop"
    /\ i > Len(orders)
    /\ output' = Append(output, [kind |-> "totals", bought |-> total_buy,
                                 sold |-> total_sell, net |-> total_sell - total_buy])
    /\ total_pnl' = 0
    /\ todo' = SortedSymbols(DOMAIN pairs)
    /\ pc' = "breakdown"
    /\ UNCHANGED << orders, error, i, total_buy, total_sell, pairs >>
    /\ UNCHANGED winRateVars
    /\ UNCHANGED shuffleVars

BreakdownSymbol ==
    /\ pc = "breakdown"
    /\ todo # << >>
    /\ total_pnl' = total_pnl + Realized(pairs[Head(todo)])
    /\ output' = Append(output, SymbolLine(Head(todo), pairs[Head(todo)]))
    /\ todo' = Tail(todo)
    /\ UNCHANGED << orders, pc, error, i, total_buy, total_sell, pairs >>
    /\ UNCHANGED winRateVars
    /\ UNCHANGED shuffleVars

PrintTotalPnl ==
    /\ pc = "breakdown"
    /\ todo = << >>
    /\ output' = Append(output, [kind |-> "total_pnl", total_pnl |-> total_pnl])
    /\ pc' = "done"
    /\ UNCHANGED << orders, error, i, total_buy, total_sell, pairs, total_pnl, todo >>
    /\ UNCHANGED winRateVars
    /\ UNCHANGED shuffleVars

NextTrades ==
    PrintHeader \/ ProcessOrder \/ PrintTotals \/ BreakdownSymbol \/ PrintTotalPnl

----------------------------------------------------------------------------
(* Input batches of the other specifications *)

\* One symbol, three strategy tags, prices that make wins, losses and
\* break-evens, a buy without fill price, sells with and without an earlier buy.
StatsOrders ==
    { [symbol |-> "AAPL", side |-> "buy", filled_avg_price |-> 10, filled_qty |-> 1,
       filled_at |-> 1, client_order_id |-> DipId],
      [symbol |-> "AAPL", side |-> "buy", filled_avg_price |-> 12, filled_qty |-> 1,
       filled_at |-> 1, client_order_id |-> MomId],
      [symbol |-> "AAPL", side |-> "buy", filled_avg_price |-> 10, filled_qty |-> 1,
       filled_at |-> 2, client_order_id |-> PlainId],
      [symbol |-> "AAPL", side |-> "buy", filled_qty |-> 1, filled_at |-> 1],
      [symbol |-> "AAPL", side |-> "sell", filled_avg_price |-> 10, filled_qty |-> 1,
       filled_at |-> 1],
      [symbol |-> "AAPL", side |-> "sell", filled_avg_price |-> 10, filled_qty |-> 1,
       filled_at |-> 2],
      [symbol |-> "AAPL", side |-> "sell", filled_avg_price |-> 12, filled_qty |-> 1,
       filled_at |-> 2],
      [symbol |-> "AAPL", side |-> "sell", filled_avg_price |-> 12, filled_qty |-> 1,
       filled_at |-> 3],
      [symbol |-> "AAPL", side |-> "sell", filled_qty |-> 1, filled_at |-> 3] }

InitStats ==
    /\ orders \in BatchesUpTo(StatsOrders, MaxStatsOrders)
    /\ shuffled = << >>
    /\ pc = "classify"
    /\ InitCommon

SpecStats == InitStats /\ [][NextWinRates]_vars

\* Fills that tie on symbol and fill time, fills that do not, a buy without
\* fill price and a record without side (either ends the run).
ShuffleOrders ==
    { [symbol |-> "AAPL", side |-> "buy", filled_avg_price |-> 10, filled_qty |-> 1,
       filled_at |-> 1, client_order_id |-> DipId],
      [symbol |-> "AAPL", side |-> "buy", filled_avg_price |-> 12, filled_qty |-> 1,
       filled_at |-> 1, client_order_id |-> MomId],
      [symbol |-> "AAPL", side |-> "buy", filled_avg_price |-> 10, filled_qty |-> 1,
       filled_at |-> 2, client_order_id |-> MomId],
      [symbol |-> "AAPL", side |-> "sell", filled_avg_price |-> 11, filled_qty |-> 1,
       filled_at |-> 2],
      [symbol |-> "AAPL", side |-> "sell", filled_avg_price |-> 11, filled_qty |-> 1,
       filled_at |-> 3],
      [symbol |-> "AAPL", side |-> "sell", filled_avg_price |-> 13, filled_qty |-> 1,
       filled_at |-> 3],
      [symbol |-> "NVDA", side |-> "buy", filled_qty |-> 1, filled_at |-> 1],
      [symbol |-> "NVDA", side |-> "sell", filled_avg_price |-> 11, filled_qty |-> 1,
       filled_at |-> 3],
      [symbol |-> "NVDA", filled_at |-> 1] }

Perms(n) ==
    { p \in [1..n -> 1..n] : \A a, b \in 1..n : p[a] = p[b] => a = b }

Shuffles(batch) ==
    { [k \in 1..Len(batch) |-> batch[p[k]]] : p \in Perms(Len(batch)) }

InitShuffle ==
    /\ orders \in Batches(ShuffleOrders)
    /\ shuffled \in Shuffles(orders)
    /\ pc = "ready"
    /\ InitCommon

SpecShuffle == InitShuffle /\ [][NextShuffle]_vars

\* Closed orders as analyze_trades.py reads them: fills, orders without fill
\* data, an order whose fill price is null, orders without side or symbol.
TradeOrders ==
    { [symbol |-> s, side |-> d, filled_avg_price |-> p, filled_qty |-> 2,
       filled_at |-> 1] : s \in Symbols, d \in Sides, p \in {10, 12} }
    \cup
    { [symbol |-> s, side |-> d, qty |-> 2, created_at |-> 1] :
        s \in Symbols, d \in Sides }
    \cup
    { [symbol |-> "AAPL", side |-> "buy", filled_avg_price |-> Null, filled_qty |-> 0,
       qty |-> 2, filled_at |-> Null, created_at |-> 1],
      [symbol |-> "AAPL", side |-> "sell", filled_avg_price |-> 10, filled_at |-> 1],
      [symbol |-> "NVDA", side |-> "sell", filled_avg_price |-> 10, filled_qty |-> Null,
       filled_at |-> 1],
      [symbol |-> "NVDA", side |-> "sell_short", filled_avg_price |-> 10,
       filled_qty |-> 2, filled_at |-> 1],
      [symbol |-> "AAPL", filled_avg_price |-> 10, filled_qty |-> 2, filled_at |-> 1],
      [side |-> "buy", filled_avg_price |-> 10, filled_qty |-> 2, filled_at |-> 1] }

InitTrades ==
    /\ orders \in Batches(TradeOrders)
    /\ shuffled = << >>
    /\ pc = "start"
    /\ InitCommon

SpecTrades == InitTrades /\ [][NextTrades]_vars

----------------------------------------------------------------------------
(* Vocabulary of the properties *)

RECURSIVE SumFn(_)
SumFn(f) ==
    IF DOMAIN f = {} THEN 0
    ELSE LET x == CHOOSE y \in DOMAIN f : TRUE
         IN  f[x] + SumFn([y \in DOMAIN f \ {x} |-> f[y]])

Count(s, Test(_)) == Cardinality({k \in 1..Len(s) : Test(s[k])})

\* The records of the batch that are fills of the given side (by input position).
FillIds(side) ==
    { n \in 1..Len(orders) :
        Filled(orders[n]) /\ Has(orders[n], "side") /\ orders[n]["side"] = side }

MatchingEntered == sell_idx >= 1

Earlier(k) == { matched[j].buy : j \in 1..(k - 1) }

\* Buys matched by sells at a position before pos.
TakenBefore(pos) == { matched[j].buy : j \in {x \in 1..Len(matched) : matched[x].pos < pos} }

EligibleIds(taken, sellId) ==
    { n \in FillIds("buy") \ taken :
        /\ orders[n]["symbol"] = orders[sellId]["symbol"]
        /\ orders[n]["filled_at"] < orders[sellId]["filled_at"] }

ProcessedUnmatched ==
    { pos \in 1..(sell_idx - 1) : \A j \in 1..Len(matched) : matched[j].pos # pos }

InputPnl(m) == FillNotional(orders[m.sell]) - FillNotional(orders[m.buy])

MatchedOf(strategy) ==
    SelectSeq(matched, LAMBDA m : Strategy(orders[m.buy]) = strategy)

----------------------------------------------------------------------------
(* Properties of analyze_win_rates.py *)

\* C1: once the matching loop runs, the sells are in ascending fill-time order
\* and are handled in that order; every matched pair joins a sell with a buy of
\* the same symbol filled strictly earlier, and that buy has the earliest fill
\* time among the eligible buys not matched before; a sell the loop passed
\* without a match had no eligible unmatched buy.
C1_FirstEarlierBuy ==
    MatchingEntered =>
        /\ \A a, b \in 1..Len(sells) : a < b => sells[a].time <= sells[b].time
        /\ \A j, k \in 1..Len(matched) : j < k => matched[j].pos < matched[k].pos
        /\ \A k \in 1..Len(matched) :
             LET m == matched[k]
             IN  /\ sells[m.pos].id = m.sell
                 /\ m.buy \in FillIds("buy")
                 /\ m.sell \in FillIds("sell")
                 /\ m.buy \in EligibleIds(Earlier(k), m.sell)
                 /\ \A n \in EligibleIds(Earlier(k), m.sell) :
                        orders[m.buy]["filled_at"] <= orders[n]["filled_at"]
        /\ \A pos \in ProcessedUnmatched :
             EligibleIds(TakenBefore(pos), sells[pos].id) = {}

\* C1 witness: buys of one symbol at T1 < T2, one sell at T3 > T2; the run is
\* over, the sell is paired with the T1 buy and the T2 buy is still in the pool.
C1_Witness ==
    /\ pc = "done"
    /\ Len(orders) = 3
    /\ Len(matched) = 1
    /\ Len(buys) = 1
    /\ orders[matched[1].buy]["filled_at"] = 1
    /\ orders[buys[1].id]["filled_at"] = 2
    /\ orders[buys[1].id]["symbol"] = orders[matched[1].sell]["symbol"]
    /\ orders[matched[1].sell]["filled_at"] = 3
    /\ orders[1]["filled_at"] = 2

\* C2: at every point of the run no buy fill and no sell fill is in two
\* matched trades, a matched buy is no longer in the pool, and for every symbol
\* the trades recorded for it number at most min(buy fills, sell fills) of the
\* symbol in the batch.
C2_NoFillReused ==
    /\ \A j, k \in 1..Len(matched) :
         j # k => matched[j].buy # matched[k].buy /\ matched[j].sell # matched[k].sell
    /\ MatchingEntered =>
         /\ \A k \in 1..Len(buys) : \A j \in 1..Len(matched) : buys[k].id # matched[j].buy
         /\ SumFn([s \in DOMAIN strategy_stats |-> Len(strategy_stats[s].trades)])
              = Len(matched)
         /\ \A sym \in Symbols :
              LET n == SumFn([s \in DOMAIN strategy_stats |->
                                Count(strategy_stats[s].trades, LAMBDA tr : tr.symbol = sym)])
                  nb == Cardinality({x \in FillIds("buy") : orders[x]["symbol"] = sym})
                  ns == Cardinality({x \in FillIds("sell") : orders[x]["symbol"] = sym})
              IN  n <= nb /\ n <= ns

\* C2 witness: one buy and two later sells of its symbol; the run is over with
\* one trade, the second sell found the buy gone.
C2_Witness ==
    /\ pc = "done"
    /\ Len(matched) = 1
    /\ Cardinality(FillIds("buy")) = 1
    /\ Cardinality(FillIds("sell")) = 2
    /\ \A x \in FillIds("sell") : \A b \in FillIds("buy") :
         /\ orders[x]["symbol"] = orders[b]["symbol"]
         /\ orders[b]["filled_at"] < orders[x]["filled_at"]

\* C4 (as claimed): pairing a sell with a buy of notional 0 does not end the run.
C4_ZeroNotionalDoesNotCrash ==
    ~(pc = "crashed" /\ error = "ZeroDivisionError")

C8_Counts ==
    /\ SumFn([s \in DOMAIN strategy_stats |-> Len(strategy_stats[s].trades)]) = Len(matched)
    /\ \A k \in 1..Len(matched) : Strategy(orders[matched[k].buy]) \in DOMAIN strategy_stats
    /\ \A s \in DOMAIN strategy_stats :
         LET st == strategy_stats[s]
             ms == MatchedOf(s)
         IN  /\ st.wins + st.losses = Len(st.trades)
             /\ Len(st.trades) = Len(ms)
             /\ \A k \in 1..Len(ms) : st.trades[k].pnl = InputPnl(ms[k])
             /\ st.wins = Count(ms, LAMBDA m : InputPnl(m) > 0)
             /\ st.losses = Count(ms, LAMBDA m : InputPnl(m) <= 0)

C8_UnmatchedSellStep ==
    ( /\ pc = "match"
      /\ sell_idx' = sell_idx + 1
      /\ \A k \in 1..Len(buys) : ~Eligible(buys[k], sells[sell_idx]) )
    => (strategy_stats' = strategy_stats /\ buys' = buys)

\* C8: every matched trade is counted exactly once, under the strategy of its
\* buy, as a win when its P&L is > 0 and as a loss when it is <= 0; wins +
\* losses is the length of the strategy's trade list; a step that handles a
\* sell with no eligible buy in the pool leaves strategy_stats and the pool as
\* they were.
C8_WinLossCounted == [](C8_Counts) /\ [][C8_UnmatchedSellStep]_vars

\* C8 witness: the run is over; a break-even trade is counted as a loss of its
\* buy's strategy and as no win, and a sell was handled that found no eligible buy.
C8_Witness ==
    /\ pc = "done"
    /\ Len(matched) = 1
    /\ ProcessedUnmatched # {}
    /\ InputPnl(matched[1]) = 0
    /\ strategy_stats[Strategy(orders[matched[1].buy])].losses = 1
    /\ strategy_stats[Strategy(orders[matched[1].buy])].wins = 0
    /\ Len(buys) = 1

\* C9: at every point of the run each strategy's total_pnl is the sum of pnl
\* over its own trade list, and the total_pnl of all strategies add up to the
\* sum, over all matched pairs, of sell notional minus buy notional.
C9_TotalsAddUp ==
    /\ \A s \in DOMAIN strategy_stats :
         strategy_stats[s].total_pnl =
             SumSeq([k \in 1..Len(strategy_stats[s].trades) |->
                        strategy_stats[s].trades[k].pnl])
    /\ SumFn([s \in DOMAIN strategy_stats |-> strategy_stats[s].total_pnl])
         = SumSeq([k \in 1..Len(matched) |-> InputPnl(matched[k])])

\* C9 witness: the run is over with trades under two strategies, a winning one
\* and a losing one.
C9_Witness ==
    /\ pc = "done"
    /\ Cardinality(DOMAIN strategy_stats) = 2
    /\ \E s \in DOMAIN strategy_stats : strategy_stats[s].total_pnl > 0
    /\ \E s \in DOMAIN strategy_stats : strategy_stats[s].total_pnl < 0

----------------------------------------------------------------------------
(* Properties of analyze_trades.py *)

Malformed(order) == ~Has(order, "side") \/ ~Has(order, "symbol")

\* Filled price times filled quantity of an input record, 0 when it lacks either.
InputNotional(order) ==
    IF /\ Has(order, "filled_avg_price") /\ order["filled_avg_price"] # Null
       /\ Has(order, "filled_qty") /\ order["filled_qty"] # Null
    THEN order["filled_avg_price"] * order["filled_qty"]
    ELSE 0

\* The records the loop has handled that are of the given side.
Handled(side) == { n \in 1..(i - 1) : orders[n]["side"] = side }

SymbolLines == SelectSeq(output, LAMBDA line : line.kind = "symbol")

\* C5 (as claimed): a batch holding a record without side or symbol never runs
\* to its end, and when the run is ended by the error no row of an earlier
\* record has been printed.
C5_MalformedBatchRejected ==
    (\E n \in 1..Len(orders) : Malformed(orders[n])) =>
        /\ pc # "done"
        /\ pc = "crashed" => \A k \in 1..Len(output) : output[k].kind # "row"

\* C6: at every point of the run total_buy is the sum of all entries of
\* pairs[*]['buys'] and the sum of the notionals of the buy records handled so
\* far, which are all buy records of the batch once the loop is over; the
\* per-symbol totals of the breakdown add up to it; the same for sells.
C6_TotalsConserved ==
    /\ total_buy = SumFn([s \in DOMAIN pairs |-> SumSeq(pairs[s].buys)])
    /\ total_sell = SumFn([s \in DOMAIN pairs |-> SumSeq(pairs[s].sells)])
    /\ total_buy = SumFn([n \in Handled("buy") |-> InputNotional(orders[n])])
    /\ total_sell = SumFn([n \in Handled("sell") |-> InputNotional(orders[n])])
    /\ pc \in {"breakdown", "done"} => i = Len(orders) + 1
    /\ pc = "done" =>
         /\ total_buy = SumSeq([k \in 1..Len(SymbolLines) |-> SymbolLines[k].bought])
         /\ total_sell = SumSeq([k \in 1..Len(SymbolLines) |-> SymbolLines[k].sold])

\* C6 witness: the run is over; buys and sells of both symbols have been
\* totalled, one symbol holding two buys.
C6_Witness ==
    /\ pc = "done"
    /\ DOMAIN pairs = Symbols
    /\ total_buy > 0
    /\ total_sell > 0
    /\ \E s \in Symbols : Len(pairs[s].buys) = 2

\* C7 (as claimed): in the breakdown a symbol with buys and no sell is "open",
\* one with sells only "close only", one with both carries sell total minus buy
\* total; an open symbol adds nothing to the total realized P&L.
C7_OpenAddsNothing ==
    pc = "done" =>
        /\ Len(SymbolLines) = Cardinality(DOMAIN pairs)
        /\ \A k \in 1..Len(SymbolLines) :
             LET line   == SymbolLines[k]
                 trades == pairs[line.symbol]
             IN  /\ line.status = "open" <=> (Len(trades.buys) > 0 /\ Len(trades.sells) = 0)
                 /\ line.status = "close_only" <=>
                        (Len(trades.buys) = 0 /\ Len(trades.sells) > 0)
                 /\ line.status = "pnl" <=> (Len(trades.buys) > 0 /\ Len(trades.sells) > 0)
                 /\ line.status = "pnl" =>
                        line.pnl = SumSeq(trades.sells) - SumSeq(trades.buys)
        /\ total_pnl = SumFn([s \in {x \in DOMAIN pairs : Len(pairs[x].sells) > 0} |->
                                SumSeq(pairs[s].sells) - SumSeq(pairs[s].buys)])

\* C10 (as claimed): a batch whose records all carry side and symbol is never
\* ended by an error, whatever fill price or filled quantity a record lacks.
C10_MissingFillDataIsNoError ==
    (\A n \in 1..Len(orders) : ~Malformed(orders[n])) => pc # "crashed"

----------------------------------------------------------------------------
(* Properties of two runs of analyze_win_rates.py on one batch, shuffled *)

TradeSet(stats) == { stats.trades[k] : k \in 1..Len(stats.trades) }

Pairing(r, batch) ==
    { << batch[r.matched[k].buy], batch[r.matched[k].sell] >> : k \in 1..Len(r.matched) }

\* Both runs end in an exception (nothing is printed), or both run to the end
\* with the same pairs, the same trades and the same counters per strategy.
SameOutcome ==
    IF result1.error # "none" \/ result2.error # "none"
    THEN result1.error # "none" /\ result2.error # "none"
    ELSE /\ Pairing(result1, orders) = Pairing(result2, shuffled)
         /\ DOMAIN result1.stats = DOMAIN result2.stats
         /\ \A s \in DOMAIN result1.stats :
              /\ result1.stats[s].wins = result2.stats[s].wins
              /\ result1.stats[s].losses = result2.stats[s].losses
              /\ result1.stats[s].total_pnl = result2.stats[s].total_pnl
              /\ TradeSet(result1.stats[s]) = TradeSet(result2.stats[s])

IsFill(order) ==
    Filled(order) /\ Has(order, "side") /\ Has(order, "symbol")
    /\ order["side"] \in {"buy", "sell"}

\* No two fills of the same side and symbol carry the same fill time.
TieFree(batch) ==
    \A a, b \in 1..Len(batch) :
        ( /\ a # b
          /\ IsFill(batch[a]) /\ IsFill(batch[b])
          /\ batch[a]["side"] = batch[b]["side"]
          /\ batch[a]["symbol"] = batch[b]["symbol"] )
        => batch[a]["filled_at"] # batch[b]["filled_at"]

\* C3 (as claimed): the run on any permutation of the batch has the outcome of
\* the run on the batch.
C3_OrderIndependent == pc = "both" => SameOutcome

\* C3 (amended): when no two buys of one symbol and no two sells of one symbol
\* carry the same fill time, the run on any permutation of the batch has the
\* outcome of the run on the batch.
C3_OrderIndependentWithoutTies == (pc = "both" /\ TieFree(orders)) => SameOutcome

\* C3 witness: both runs are over on a batch without ties that is not in
\* fill-time order and whose permutation differs from it; a trade was matched.
C3_Witness ==
    /\ pc = "both"
    /\ TieFree(orders)
    /\ shuffled # orders
    /\ result1.error = "none"
    /\ Len(result1.matched) >= 1
    /\ Len(orders) = 3
    /\ IsFill(orders[1]) /\ IsFill(orders[3])
    /\ orders[1]["filled_at"] > orders[3]["filled_at"]

====
